---- MODULE Spec2Model ----
(***************************************************************************)
(* A model of ts-app-env: the option descriptors (option.getValue with the *)
(* string, number and boolean parsers and the lookup-key derivation) and   *)
(* the schema resolver (newConfig, logOrFailIfErrors, log).                *)
(*                                                                         *)
(* JavaScript strings are sequences of one-character strings, so that the  *)
(* character-level code (snakeAndUpIfNeeded, parseFloat, join) is modelled *)
(* by what it does.  JavaScript values are tagged records.                 *)
(***************************************************************************)
EXTENDS Integers, Sequences, FiniteSets, TLC

VARIABLES
  spec,         \* newConfig's first argument of the current top-level call
  env,          \* the environment snapshot of the call
  options,      \* the ConfigOptions of the call
  pc,           \* where the caller is: "ready", "running", "done", "mutated"
  stack,        \* the active newConfig invocations, innermost last
  sink,         \* the calls made to the logger, oldest first
  outcome,      \* what the top-level call gave the caller
  result,       \* the caller's reference to the returned object
  assigned,     \* the assignment the caller attempted on the result
  calls,        \* the caller's earlier calls: their inputs and what they gave
  probe,        \* the inputs of a direct getValue call
  probeResult   \* what that getValue call gave

vars == <<spec, env, options, pc, stack, sink, outcome, result, assigned, calls, probe, probeResult>>

resolverVars == <<spec, env, options, pc, stack, sink, outcome, result, assigned, calls>>

probeVars == <<probe, probeResult>>

-----------------------------------------------------------------------------
(* JavaScript values *)

Undefined == [t |-> "undefined"]

Str(s) == [t |-> "string", s |-> s]

Num(n, d) == [t |-> "number", num |-> n, den |-> d]

Bool(b) == [t |-> "boolean", b |-> b]

Arr(items) == [t |-> "array", items |-> items]

\* ToBoolean, as used by ||, ! and if (v)
Truthy(v) ==
  CASE v.t = "undefined" -> FALSE
    [] v.t = "string"    -> v.s # <<>>
    [] v.t = "number"    -> v.num # 0
    [] v.t = "boolean"   -> v.b
    [] OTHER             -> TRUE

-----------------------------------------------------------------------------
(* Characters *)

Lower == <<"a","b","c","d","e","f","g","h","i","j","k","l","m",
           "n","o","p","q","r","s","t","u","v","w","x","y","z">>

Upper == <<"A","B","C","D","E","F","G","H","I","J","K","L","M",
           "N","O","P","Q","R","S","T","U","V","W","X","Y","Z">>

Digits == <<"0","1","2","3","4","5","6","7","8","9">>

IsIn(c, chars) == \E i \in 1..Len(chars) : chars[i] = c

IndexIn(c, chars) == CHOOSE i \in 1..Len(chars) : chars[i] = c

\* the class [A-Z] of the regular expressions
IsUpperAZ(c) == IsIn(c, Upper)

IsDigit(c) == IsIn(c, Digits)

\* String.prototype.toUpperCase, one character
toUpperCaseChar(c) == IF IsIn(c, Lower) THEN Upper[IndexIn(c, Lower)] ELSE c

toUpperCase(s) == [i \in 1..Len(s) |-> toUpperCaseChar(s[i])]

\* s.includes(c) for a one-character c
includes(s, c) == \E i \in 1..Len(s) : s[i] = c

\* s.match(/^[A-Z]+$/)
matchAllUpper(s) == Len(s) > 0 /\ \A i \in 1..Len(s) : IsUpperAZ(s[i])

RECURSIVE replaceUpper(_)
\* s.replace(/([A-Z])/g, (l) => "_" + l)
replaceUpper(s) ==
  IF s = <<>> THEN <<>>
  ELSE (IF IsUpperAZ(Head(s)) THEN <<"_", Head(s)>> ELSE <<Head(s)>>)
       \o replaceUpper(Tail(s))

snakeAndUpIfNeeded(propertyName) ==
  IF includes(propertyName, "_") \/ matchAllUpper(propertyName)
  THEN propertyName
  ELSE toUpperCase(replaceUpper(propertyName))

\* typeof data === "string" ? [data] : data
toList(data) == IF data.t = "string" THEN <<data.s>> ELSE data.items

\* indexOfFound with the test written list.indexOf(x) > 0
indexOfFound_NotFirst(list, x) == \E i \in 2..Len(list) : list[i] = x

\* list.indexOf(x) > -1
indexOfFound(list, x) == \E i \in 1..Len(list) : list[i] = x

-----------------------------------------------------------------------------
(* parseFloat: leading white space, a sign, then Infinity or the longest   *)
(* prefix that is a decimal literal (digits, fraction, exponent).  A       *)
(* number is num/den with den the least power of ten; den = 0 is Infinity. *)

NaN == [t |-> "number", nan |-> TRUE]

isNaN(v) == "nan" \in DOMAIN v

InfinityWord == <<"I","n","f","i","n","i","t","y">>

IsPrefix(p, s) == Len(p) <= Len(s) /\ SubSeq(s, 1, Len(p)) = p

drop(s, n) == SubSeq(s, n + 1, Len(s))

RECURSIVE trimStart(_)
trimStart(s) == IF s # <<>> /\ Head(s) = " " THEN trimStart(Tail(s)) ELSE s

RECURSIVE takeDigits(_)
takeDigits(s) ==
  IF s # <<>> /\ IsDigit(Head(s)) THEN <<Head(s)>> \o takeDigits(Tail(s)) ELSE <<>>

RECURSIVE digitsValue(_)
digitsValue(ds) ==
  IF ds = <<>> THEN 0
  ELSE digitsValue(SubSeq(ds, 1, Len(ds) - 1)) * 10 + (IndexIn(ds[Len(ds)], Digits) - 1)

RECURSIVE Pow10(_)
Pow10(k) == IF k = 0 THEN 1 ELSE 10 * Pow10(k - 1)

RECURSIVE normalize(_, _)
normalize(n, d) ==
  IF d > 1 /\ n % 10 = 0 THEN normalize(n \div 10, d \div 10) ELSE Num(n, d)

\* the exponent part of the literal, if rest starts with one: its value
exponentOf(rest) ==
  IF rest # <<>> /\ Head(rest) \in {"e", "E"}
  THEN IF Len(rest) > 1 /\ rest[2] \in {"+", "-"}
       THEN (IF rest[2] = "-" THEN -1 ELSE 1) * digitsValue(takeDigits(drop(rest, 2)))
       ELSE digitsValue(takeDigits(Tail(rest)))
  ELSE 0

\* the value of the digits m scaled by ten to the e10
scaled(m, e10) == IF e10 >= 0 THEN Num(m * Pow10(e10), 1) ELSE normalize(m, Pow10(-e10))

\* integer digits ip, fraction digits fp, then rest
decimalValue(sign, ip, fp, rest) ==
  IF ip = <<>> /\ fp = <<>> THEN NaN
  ELSE scaled(sign * digitsValue(ip \o fp), exponentOf(rest) - Len(fp))

\* after the integer digits ip: an optional fraction
afterInteger(sign, ip, r1) ==
  IF r1 # <<>> /\ Head(r1) = "."
  THEN decimalValue(sign, ip, takeDigits(Tail(r1)), drop(r1, 1 + Len(takeDigits(Tail(r1)))))
  ELSE decimalValue(sign, ip, <<>>, r1)

\* after the sign
unsignedValue(sign, s1) ==
  IF IsPrefix(InfinityWord, s1) THEN Num(sign, 0)
  ELSE afterInteger(sign, takeDigits(s1), drop(s1, Len(takeDigits(s1))))

\* after the leading white space
signedValue(s0) ==
  IF s0 # <<>> /\ Head(s0) \in {"+", "-"}
  THEN unsignedValue(IF Head(s0) = "-" THEN -1 ELSE 1, Tail(s0))
  ELSE unsignedValue(1, s0)

parseFloat(str) == signedValue(trimStart(str))

-----------------------------------------------------------------------------
(* Completions: a call returns a value or throws one.  Error objects are   *)
(* the thrown values for which `e instanceof Error` holds.                 *)

Return(v) == [k |-> "return", v |-> v]

Throw(e) == [k |-> "throw", e |-> e]

Error(cls, message) == [t |-> "error", cls |-> cls, message |-> message]

ConfigError(message) == Error("ConfigError", message)

instanceofError(e) == e.t = "error"

IsNotANumber == <<"i","s"," ","n","o","t"," ","a"," ","n","u","m","b","e","r">>

IsNotSet == <<" ","i","s"," ","n","o","t"," ","s","e","t">>

\* number with parseInt(s, 10) in place of parseFloat(s)
number_parseInt(s) ==
  IF isNaN(parseFloat(s)) THEN Throw(Error("Error", IsNotANumber))
  ELSE IF parseFloat(s).den = 0 THEN Throw(Error("Error", IsNotANumber))
  ELSE Return(Num(parseFloat(s).num \div parseFloat(s).den, 1))

\* the parser number() hands to option()
number(s) ==
  IF isNaN(parseFloat(s)) THEN Throw(Error("Error", IsNotANumber)) ELSE Return(parseFloat(s))

\* the parser string() hands to option()
string(s) == Return(Str(s))

TrueWord == <<"t","r","u","e">>

\* boolean with the comparison made on the upper-cased value
boolean_IgnoreCase(s) == Return(Bool(toUpperCase(s) = <<"T","R","U","E">>))

\* the parser boolean() hands to option()
boolean(s) == Return(Bool(s = TrueWord))

\* a caller's parser handed to option() that throws a value that is no Error
throwingParser(s) == Throw(Str(s))

parse(p, s) ==
  CASE p = "number"  -> number(s)
    [] p = "string"  -> string(s)
    [] p = "boolean" -> boolean(s)
    [] OTHER         -> throwingParser(s)

\* an object made by option(options, parser)
Option(p, o) == [t |-> "option", parser |-> p, options |-> o]

Settings(e, d, o, n) == [env |-> e, default |-> d, optional |-> o, notNeededIn |-> n]

\* env[envName]
Lookup(e, name) == IF name \in DOMAIN e THEN e[name] ELSE Undefined

envNameOf(opt, propertyName) ==
  IF Truthy(opt.options.env) THEN opt.options.env.s
  ELSE snakeAndUpIfNeeded(propertyName)

notNeeded(opt, appOptions) ==
  /\ opt.options.notNeededIn # Undefined
  /\ appOptions # Undefined
  /\ appOptions.nodeEnv # Undefined
  /\ indexOfFound(toList(opt.options.notNeededIn), appOptions.nodeEnv.s)

\* parsedValue with a configured default returned when the parser throws
parsedValue_DefaultRescues(opt, envName, envValue) ==
  IF parse(opt.parser, envValue.s).k = "throw" /\ opt.options.default # Undefined
  THEN Return(opt.options.default)
  ELSE IF parse(opt.parser, envValue.s).k = "throw"
          /\ instanceofError(parse(opt.parser, envValue.s).e)
  THEN Throw(ConfigError(envName \o <<" ">> \o parse(opt.parser, envValue.s).e.message))
  ELSE parse(opt.parser, envValue.s)

\* getValue when the snapshot holds envValue under envName
parsedValue(opt, envName, envValue) ==
  IF parse(opt.parser, envValue.s).k = "throw"
     /\ instanceofError(parse(opt.parser, envValue.s).e)
  THEN Throw(ConfigError(envName \o <<" ">> \o parse(opt.parser, envValue.s).e.message))
  ELSE parse(opt.parser, envValue.s)

\* absentValue with the test written if (options.default)
absentValue_TruthyDefault(opt, envName, appOptions) ==
  IF Truthy(opt.options.default) THEN Return(opt.options.default)
  ELSE IF Truthy(opt.options.optional) THEN Return(Undefined)
  ELSE IF notNeeded(opt, appOptions) THEN Return(Undefined)
  ELSE Throw(ConfigError(envName \o IsNotSet))

\* getValue when the snapshot holds nothing under envName
absentValue(opt, envName, appOptions) ==
  IF opt.options.default # Undefined THEN Return(opt.options.default)
  ELSE IF Truthy(opt.options.optional) THEN Return(Undefined)
  ELSE IF notNeeded(opt, appOptions) THEN Return(Undefined)
  ELSE Throw(ConfigError(envName \o IsNotSet))

\* getValue with the test written if (envValue)
getValue_TruthyValue(opt, propertyName, e, appOptions) ==
  IF Truthy(Lookup(e, envNameOf(opt, propertyName)))
  THEN parsedValue(opt, envNameOf(opt, propertyName), Lookup(e, envNameOf(opt, propertyName)))
  ELSE absentValue(opt, envNameOf(opt, propertyName), appOptions)

getValue(opt, propertyName, e, appOptions) ==
  IF Lookup(e, envNameOf(opt, propertyName)) # Undefined
  THEN parsedValue(opt, envNameOf(opt, propertyName), Lookup(e, envNameOf(opt, propertyName)))
  ELSE absentValue(opt, envNameOf(opt, propertyName), appOptions)

-----------------------------------------------------------------------------
(* Words used by the inputs *)

NAME == <<"N","A","M","E">>

PORT == <<"P","O","R","T">>

SOME_URL == <<"S","O","M","E","_","U","R","L">>

DEFAULT == <<"D","E","F","A","U","L","T">>

development == <<"d","e","v","e","l","o","p","m","e","n","t">>

production == <<"p","r","o","d","u","c","t","i","o","n">>

test == <<"t","e","s","t">>

\* the ConfigOptions object of a call
ConfigOptions(ignoreErrors, doNotLogErrors, nodeEnv) ==
  [t |-> "options", ignoreErrors |-> ignoreErrors,
   doNotLogErrors |-> doNotLogErrors, nodeEnv |-> nodeEnv]

-----------------------------------------------------------------------------
(* Direct calls of getValue: every combination of the settings below, on   *)
(* snapshots holding at most one variable.                                 *)

ProbeDefaults(p) ==
  CASE p = "string"  -> {Undefined, Str(DEFAULT), Str(<<>>)}
    [] p = "number"  -> {Undefined, Num(8081, 1), Num(0, 1)}
    [] p = "boolean" -> {Undefined, Bool(TRUE), Bool(FALSE)}
    [] OTHER         -> {Undefined}

ProbeDescriptors ==
  UNION { { Option(p, Settings(e, d, o, n)) :
              e \in {Undefined, Str(PORT), Str(<<>>)},
              d \in ProbeDefaults(p),
              o \in {Undefined, Bool(TRUE), Bool(FALSE)},
              n \in {Undefined, Str(development),
                     Arr(<<development, test>>), Arr(<<>>)} } :
          p \in {"string", "number", "boolean", "custom"} }

ProbeNames ==
  { <<"p","o","r","t">>, PORT, <<"s","o","m","e","U","r","l">>, SOME_URL }

ProbeValues ==
  { TrueWord, <<"f","a","l","s","e">>, <<"T","R","U","E">>, <<"1">>,
    <<"8","0","8","0">>, <<"1","0","0",".","5">>, <<"a","b","c">>,
    <<"1","2","a","b","c">>, <<>> }

ProbeEnvs ==
  {<<>>} \cup { k :> Str(v) : k \in {PORT, SOME_URL}, v \in ProbeValues }

ProbeAppOptions ==
  {Undefined} \cup
  { ConfigOptions(Undefined, Undefined, n) :
      n \in {Undefined, Str(development), Str(test), Str(production)} }

NoProbe == [called |-> FALSE]

ProbeIdle == probe = NoProbe /\ probeResult = NoProbe

ProbeInit ==
  /\ probe \in { [called |-> FALSE, opt |-> d, propertyName |-> n, env |-> e, appOptions |-> a] :
                   d \in ProbeDescriptors, n \in ProbeNames,
                   e \in ProbeEnvs, a \in ProbeAppOptions }
  /\ probeResult = NoProbe

\* v.getValue(propertyName, env, appOptions)
CallGetValue ==
  /\ "opt" \in DOMAIN probe
  /\ ~probe.called
  /\ probe' = [probe EXCEPT !.called = TRUE]
  /\ probeResult' = getValue(probe.opt, probe.propertyName, probe.env, probe.appOptions)
  /\ UNCHANGED resolverVars

-----------------------------------------------------------------------------
(* Direct calls of snakeAndUpIfNeeded, on every field name of at most      *)
(* MaxNameLen characters over a lowercase letter, an uppercase letter, a   *)
(* digit and the underscore.                                               *)

\* the longest field name tried
MaxNameLen == 4

NameChars == {"a", "B", "1", "_"}

PropertyNames == UNION { [1..n -> NameChars] : n \in 1..MaxNameLen }

NameInit ==
  /\ probe \in { [called |-> FALSE, propertyName |-> n] : n \in PropertyNames }
  /\ probeResult = NoProbe

\* snakeAndUpIfNeeded(propertyName)
CallSnakeAndUpIfNeeded ==
  /\ "opt" \notin DOMAIN probe
  /\ "propertyName" \in DOMAIN probe
  /\ ~probe.called
  /\ probe' = [probe EXCEPT !.called = TRUE]
  /\ probeResult' = Str(snakeAndUpIfNeeded(probe.propertyName))
  /\ UNCHANGED resolverVars


\* snakeAndUpIfNeeded(key), for a field named by the key derived before
CallSnakeAndUpIfNeededOnKey ==
  /\ "opt" \notin DOMAIN probe
  /\ "propertyName" \in DOMAIN probe
  /\ "key" \notin DOMAIN probe
  /\ probe.called
  /\ probe' = [called |-> TRUE, propertyName |-> probe.propertyName, key |-> probeResult.s]
  /\ probeResult' = Str(snakeAndUpIfNeeded(probeResult.s))
  /\ UNCHANGED resolverVars

-----------------------------------------------------------------------------
(* Objects: own properties in insertion order, and the frozen flag set by  *)
(* Object.freeze.                                                          *)

Prop(k, v) == [key |-> k, val |-> v]

Obj(entries) == [t |-> "object", frozen |-> FALSE, entries |-> entries]

HasOwn(o, k) == \E i \in 1..Len(o.entries) : o.entries[i].key = k

IndexOfKey(o, k) == CHOOSE i \in 1..Len(o.entries) : o.entries[i].key = k

\* o[k]
Get(o, k) == IF HasOwn(o, k) THEN o.entries[IndexOfKey(o, k)].val ELSE Undefined

\* o[k] = v: no effect on a frozen object (a TypeError in strict mode)
Set(o, k, v) ==
  IF o.frozen THEN o
  ELSE IF HasOwn(o, k)
       THEN [o EXCEPT !.entries[IndexOfKey(o, k)].val = v]
       ELSE [o EXCEPT !.entries = Append(@, Prop(k, v))]

\* freeze left out: return config
freeze_Nothing(o) == o

\* Object.freeze(o)
freeze(o) == [o EXCEPT !.frozen = TRUE]

RECURSIVE ObjectPaths(_)
\* the paths to o and to every object nested in it
ObjectPaths(o) ==
  {<<>>} \cup
  UNION { { <<o.entries[i].key>> \o q : q \in ObjectPaths(o.entries[i].val) } :
          i \in { j \in 1..Len(o.entries) : o.entries[j].val.t = "object" } }

-----------------------------------------------------------------------------
(* The schemas, snapshots and options of the resolver's calls              *)

\* the most entries a schema holds, those of its nested schemas included
MaxEntries == 3

\* the most levels of nested schemas below the top-level schema
MaxDepth == 2

name == <<"n","a","m","e">>

port == <<"p","o","r","t">>

portOptional == <<"p","o","r","t","O","p","t","i","o","n","a","l">>

enabled == <<"e","n","a","b","l","e","d">>

foo == <<"f","o","o">>

someThirdParty == <<"s","o","m","e","T","h","i","r","d","P","a","r","t","y">>

\* the leaf entries a schema is built from
Fields ==
  { Prop(name, Option("string", Settings(Str(NAME), Undefined, Undefined, Str(development)))),
    Prop(port, Option("number", Settings(Undefined, Undefined, Undefined, Undefined))),
    Prop(portOptional, Option("number", Settings(Str(PORT), Undefined, Bool(TRUE), Undefined))),
    Prop(enabled, Option("boolean", Settings(Str(NAME), Bool(FALSE), Undefined, Undefined))),
    Prop(foo, Bool(TRUE)) }

NestedKeys == {someThirdParty}

KeysOf(entries) == { entries[i].key : i \in 1..Len(entries) }

RECURSIVE Schemas(_, _)
\* the entry lists of at most n entries in all, nested at most d levels deep,
\* with distinct keys at each level
Schemas(n, d) ==
  {<<>>} \cup
  (IF n = 0 THEN {}
   ELSE { <<x[1]>> \o x[2] :
            x \in { y \in Fields \X Schemas(n - 1, d) : y[1].key \notin KeysOf(y[2]) } }
        \cup
        (IF d = 0 THEN {}
         ELSE UNION { { <<Prop(x[1], Obj(x[2]))>> \o x[3] :
                          x \in { y \in NestedKeys \X Schemas(m, d - 1) \X Schemas(n - 1 - m, d) :
                                    y[1] \notin KeysOf(y[3]) } } :
                      m \in 0..(n - 1) }))

Specs == { Obj(s) : s \in Schemas(MaxEntries, MaxDepth) }

OnePointFive == <<"1",".","5">>

\* the snapshots: NAME unset or "true"; PORT unset, "true" or "1.5"
Envs ==
  { (NAME :> n) @@ (PORT :> p) :
      n \in {Undefined, Str(TrueWord)},
      p \in {Undefined, Str(TrueWord), Str(OnePointFive)} }

AllOptions ==
  { ConfigOptions(i, l, n) :
      i \in {Undefined, Bool(TRUE)}, l \in {Undefined, Bool(TRUE)},
      n \in {Undefined, Str(development)} }

-----------------------------------------------------------------------------
(* newConfig, one invocation per stack frame.  A frame walks the keys of   *)
(* its spec (phase "walk"), runs logOrFailIfErrors, and then leaves by     *)
(* `return Object.freeze(config)` (phase "return") or by                   *)
(* `throw new ConfigError(message)` (phase "throw").                       *)

None == [k |-> "none"]

Frame(s) ==
  [spec |-> s, i |-> 1, errors |-> <<>>, config |-> Obj(<<>>),
   phase |-> "walk", message |-> <<>>]

Top == stack[Len(stack)]

ReplaceTop(f) == [stack EXCEPT ![Len(stack)] = f]

Pop == SubSeq(stack, 1, Len(stack) - 1)

\* the frame that called the top frame, and the key it was visiting
Parent == stack[Len(stack) - 1]

ParentKey == Parent.spec.entries[Parent.i].key

Walking ==
  /\ pc = "running"
  /\ stack # <<>>
  /\ Top.phase = "walk"
  /\ Top.i <= Len(Top.spec.entries)

CurKey == Top.spec.entries[Top.i].key

CurVal == Top.spec.entries[Top.i].val

CommaSpace == <<",", " ">>

RECURSIVE join(_, _)
\* parts.join(sep)
join(parts, sep) ==
  IF parts = <<>> THEN <<>>
  ELSE IF Len(parts) = 1 THEN parts[1]
  ELSE parts[1] \o sep \o join(Tail(parts), sep)

\* errors.map((e) => e.message)
messages(errors) == [i \in 1..Len(errors) |-> errors[i].message]

IgnoringPrefix ==
  <<"I","g","n","o","r","i","n","g"," ","e","r","r","o","r","s"," ",
    "w","h","i","l","e"," ","i","n","s","t","a","n","t","i","a","t","i","n","g"," ",
    "c","o","n","f","i","g",":"," ">>

\* log without the doNotLogErrors test
log_FlagIgnored(level, message, o) == Append(sink, [level |-> level, message |-> message])

\* log(fn, message, options): the sink after the call
log(level, message, o) ==
  IF o.doNotLogErrors = Bool(TRUE) THEN sink
  ELSE Append(sink, [level |-> level, message |-> message])

\* catch that keeps only the first error
catch_FirstOnly(f, e) ==
  IF f.errors = <<>> THEN [f EXCEPT !.errors = Append(@, e), !.i = @ + 1]
  ELSE [f EXCEPT !.i = @ + 1]

\* catch that ends the walk at the first error
catch_StopWalk(f, e) ==
  [f EXCEPT !.errors = Append(@, e), !.i = Len(f.spec.entries) + 1]

\* an invocation's catch clause took e: the frame after it
catch(f, e) == [f EXCEPT !.errors = Append(@, e), !.i = @ + 1]

\* Call with the config object kept from the call before
Call_ConfigKept ==
  /\ pc = "ready"
  /\ pc' = "running"
  /\ stack' = <<[Frame(spec) EXCEPT !.config =
                   IF calls # <<>> /\ calls[Len(calls)].outcome.k = "return"
                   THEN [calls[Len(calls)].outcome.v EXCEPT !.frozen = FALSE]
                   ELSE Obj(<<>>)]>>
  /\ UNCHANGED <<spec, env, options, sink, outcome, result, assigned>>
  /\ UNCHANGED calls
  /\ UNCHANGED probeVars

\* the caller invokes newConfig(spec, env, options)
Call ==
  /\ pc = "ready"
  /\ pc' = "running"
  /\ stack' = <<Frame(spec)>>
  /\ UNCHANGED <<spec, env, options, sink, outcome, result, assigned>>
  /\ UNCHANGED calls
  /\ UNCHANGED probeVars

\* VisitOption of the top-level invocation with the value written to spec[k] too
VisitOption_InPlace ==
  /\ Walking
  /\ CurVal.t = "option"
  /\ LET r == getValue(CurVal, CurKey, env, options)
     IN  IF r.k = "return"
         THEN /\ stack' = ReplaceTop([Top EXCEPT !.config = Set(@, CurKey, r.v), !.i = @ + 1])
              /\ spec' = IF Len(stack) = 1
                         THEN [spec EXCEPT !.entries[Top.i].val = r.v]
                         ELSE spec
              /\ UNCHANGED <<pc, outcome, result>>
         ELSE IF instanceofError(r.e)
         THEN /\ stack' = ReplaceTop(catch(Top, r.e))
              /\ UNCHANGED <<spec, pc, outcome, result>>
         ELSE /\ stack' = <<>>
              /\ pc' = "done"
              /\ outcome' = r
              /\ UNCHANGED <<spec, result>>
  /\ UNCHANGED <<env, options, sink, assigned>>
  /\ UNCHANGED calls
  /\ UNCHANGED probeVars

\* forEach callback, v instanceof ConfigOption
VisitOption ==
  /\ Walking
  /\ CurVal.t = "option"
  /\ LET r == getValue(CurVal, CurKey, env, options)
     IN  IF r.k = "return"
         THEN /\ stack' = ReplaceTop([Top EXCEPT !.config = Set(@, CurKey, r.v), !.i = @ + 1])
              /\ UNCHANGED <<pc, outcome, result>>
         ELSE IF instanceofError(r.e)
         THEN /\ stack' = ReplaceTop(catch(Top, r.e))
              /\ UNCHANGED <<pc, outcome, result>>
         ELSE \* rethrown by the catch clause of every enclosing invocation
              /\ stack' = <<>>
              /\ pc' = "done"
              /\ outcome' = r
              /\ UNCHANGED result
  /\ UNCHANGED <<spec, env, options, sink, assigned>>
  /\ UNCHANGED calls
  /\ UNCHANGED probeVars

\* forEach callback, typeof v === "object": the nested newConfig is entered
VisitNested ==
  /\ Walking
  /\ CurVal.t # "option"
  /\ CurVal.t = "object"
  /\ stack' = Append(stack, Frame(CurVal))
  /\ UNCHANGED <<spec, env, options, pc, sink, outcome, result, assigned>>
  /\ UNCHANGED calls
  /\ UNCHANGED probeVars

\* forEach callback, neither branch taken
VisitOther ==
  /\ Walking
  /\ CurVal.t # "option"
  /\ CurVal.t # "object"
  /\ stack' = ReplaceTop([Top EXCEPT !.i = @ + 1])
  /\ UNCHANGED <<spec, env, options, pc, sink, outcome, result, assigned>>
  /\ UNCHANGED calls
  /\ UNCHANGED probeVars

\* logOrFailIfErrors(options, errors, options.ignoreErrors || false), up to its throw
logOrFailIfErrors ==
  /\ pc = "running"
  /\ stack # <<>>
  /\ Top.phase = "walk"
  /\ Top.i > Len(Top.spec.entries)
  /\ LET message == join(messages(Top.errors), CommaSpace)
     IN  IF Len(Top.errors) = 0
         THEN /\ stack' = ReplaceTop([Top EXCEPT !.phase = "return"])
              /\ UNCHANGED sink
         ELSE IF ~Truthy(options.ignoreErrors)
         THEN /\ sink' = log("error", message, options)
              /\ stack' = ReplaceTop([Top EXCEPT !.phase = "throw", !.message = message])
         ELSE /\ sink' = log("info", IgnoringPrefix \o message, options)
              /\ stack' = ReplaceTop([Top EXCEPT !.phase = "return"])
  /\ UNCHANGED <<spec, env, options, pc, outcome, result, assigned>>
  /\ UNCHANGED calls
  /\ UNCHANGED probeVars

\* ThrowConfigError with the error of a nested invocation dropped by its caller
ThrowConfigError_Swallowed ==
  /\ pc = "running"
  /\ stack # <<>>
  /\ Top.phase = "throw"
  /\ IF Len(stack) = 1
     THEN /\ stack' = <<>>
          /\ pc' = "done"
          /\ outcome' = Throw(ConfigError(Top.message))
     ELSE /\ stack' = [Pop EXCEPT ![Len(stack) - 1] = [Parent EXCEPT !.i = @ + 1]]
          /\ UNCHANGED <<pc, outcome>>
  /\ UNCHANGED <<spec, env, options, sink, result, assigned>>
  /\ UNCHANGED calls
  /\ UNCHANGED probeVars

\* throw new ConfigError(message): caught by the calling invocation, if any
ThrowConfigError ==
  /\ pc = "running"
  /\ stack # <<>>
  /\ Top.phase = "throw"
  /\ LET e == ConfigError(Top.message)
     IN  IF Len(stack) = 1
         THEN /\ stack' = <<>>
              /\ pc' = "done"
              /\ outcome' = Throw(e)
         ELSE /\ stack' = [Pop EXCEPT ![Len(stack) - 1] = catch(Parent, e)]
              /\ UNCHANGED <<pc, outcome>>
  /\ UNCHANGED <<spec, env, options, sink, result, assigned>>
  /\ UNCHANGED calls
  /\ UNCHANGED probeVars

\* ReturnConfig with the nested result not stored under the parent key
ReturnConfig_NotStored ==
  /\ pc = "running"
  /\ stack # <<>>
  /\ Top.phase = "return"
  /\ IF Len(stack) = 1
     THEN /\ stack' = <<>>
          /\ pc' = "done"
          /\ outcome' = Return(freeze(Top.config))
          /\ result' = freeze(Top.config)
     ELSE /\ stack' = [Pop EXCEPT ![Len(stack) - 1] = [Parent EXCEPT !.i = @ + 1]]
          /\ UNCHANGED <<pc, outcome, result>>
  /\ UNCHANGED <<spec, env, options, sink, assigned>>
  /\ UNCHANGED calls
  /\ UNCHANGED probeVars

\* return Object.freeze(config): to the calling invocation, if any
ReturnConfig ==
  /\ pc = "running"
  /\ stack # <<>>
  /\ Top.phase = "return"
  /\ LET v == freeze(Top.config)
     IN  IF Len(stack) = 1
         THEN /\ stack' = <<>>
              /\ pc' = "done"
              /\ outcome' = Return(v)
              /\ result' = v
         ELSE /\ stack' = [Pop EXCEPT ![Len(stack) - 1] =
                             [Parent EXCEPT !.config = Set(@, ParentKey, v), !.i = @ + 1]]
              /\ UNCHANGED <<pc, outcome, result>>
  /\ UNCHANGED <<spec, env, options, sink, assigned>>
  /\ UNCHANGED calls
  /\ UNCHANGED probeVars

SomethingElse == Str(<<"s","o","m","e","t","h","i","n","g"," ","e","l","s","e">>)

extra == <<"e","x","t","r","a">>

RECURSIVE ObjectAt(_, _)
ObjectAt(o, path) == IF path = <<>> THEN o ELSE ObjectAt(Get(o, Head(path)), Tail(path))

RECURSIVE SetAt(_, _, _, _)
\* o.p1.p2[k] = v: the object graph after the assignment (the objects on
\* the path are reached by reference, whether frozen or not)
SetAt(o, path, k, v) ==
  IF path = <<>> THEN Set(o, k, v)
  ELSE [o EXCEPT !.entries[IndexOfKey(o, Head(path))].val = SetAt(@, Tail(path), k, v)]

\* the caller assigns to a field of the returned object or of an object in it
Assign ==
  /\ pc = "done"
  /\ outcome.k = "return"
  /\ \E path \in ObjectPaths(result) :
       \E k \in {name, extra} :
         /\ result' = SetAt(result, path, k, SomethingElse)
         /\ assigned' = [path |-> path, key |-> k]
  /\ pc' = "mutated"
  /\ UNCHANGED <<spec, env, options, stack, sink, outcome>>
  /\ UNCHANGED calls
  /\ UNCHANGED probeVars

ResolverIdle ==
  /\ spec = Obj(<<>>)
  /\ env = <<>>
  /\ options = ConfigOptions(Undefined, Undefined, Undefined)
  /\ pc = "idle"
  /\ stack = <<>>
  /\ sink = <<>>
  /\ outcome = None
  /\ result = None
  /\ assigned = None
  /\ calls = <<>>

Init ==
  /\ spec \in Specs
  /\ env \in Envs
  /\ options \in AllOptions
  /\ pc = "ready"
  /\ stack = <<>>
  /\ sink = <<>>
  /\ outcome = None
  /\ result = None
  /\ assigned = None
  /\ calls = <<>>
  /\ ProbeIdle

Next ==
  \/ Call
  \/ VisitOption
  \/ VisitNested
  \/ VisitOther
  \/ logOrFailIfErrors
  \/ ThrowConfigError
  \/ ReturnConfig
  \/ Assign

\* newConfig on schemas of the built-in descriptors, literals and nested schemas
Spec == Init /\ [][Next]_vars

custom == <<"c","u","s","t","o","m">>

\* a descriptor made by option() with a caller's parser that throws a value
\* that is no Error
CustomField == Prop(custom, Option("custom", Settings(Str(NAME), Undefined, Undefined, Undefined)))

\* the schemas with that descriptor first, last, or alone in a nested schema
CustomSpecs ==
  UNION { { Obj(<<CustomField>> \o s), Obj(s \o <<CustomField>>) } \cup
          (IF someThirdParty \in KeysOf(s) THEN {}
           ELSE { Obj(<<Prop(someThirdParty, Obj(<<CustomField>>))>> \o s) }) :
          s \in Schemas(MaxEntries - 1, MaxDepth - 1) }

InitCustom ==
  /\ spec \in CustomSpecs
  /\ env \in Envs
  /\ options \in AllOptions
  /\ pc = "ready"
  /\ stack = <<>>
  /\ sink = <<>>
  /\ outcome = None
  /\ result = None
  /\ assigned = None
  /\ calls = <<>>
  /\ ProbeIdle

\* newConfig on schemas that hold a descriptor with a caller's parser
SpecCustom == InitCustom /\ [][Next]_vars

\* the most calls a caller makes one after the other
MaxCalls == 3

\* the schemas, snapshots and options of a caller that calls repeatedly
CallSpecs == { Obj(s) : s \in Schemas(MaxEntries - 1, MaxDepth - 1) }

CallEnvs ==
  { (NAME :> Undefined) @@ (PORT :> Undefined),
    (NAME :> Str(TrueWord)) @@ (PORT :> Str(OnePointFive)) }

CallOptions == { ConfigOptions(i, Undefined, Undefined) : i \in {Undefined, Bool(TRUE)} }

\* the caller notes what the call gave and calls newConfig again with the
\* same schema object, on a snapshot and options of its choice
CallAgain ==
  /\ pc = "done"
  /\ Len(calls) < MaxCalls - 1
  /\ calls' = Append(calls, [spec |-> spec, env |-> env, options |-> options, outcome |-> outcome])
  /\ env' \in CallEnvs
  /\ options' \in CallOptions
  /\ pc' = "ready"
  /\ outcome' = None
  /\ result' = None
  /\ UNCHANGED <<spec, stack, sink, assigned>>
  /\ UNCHANGED probeVars

InitCalls ==
  /\ spec \in CallSpecs
  /\ env \in CallEnvs
  /\ options \in CallOptions
  /\ pc = "ready"
  /\ stack = <<>>
  /\ sink = <<>>
  /\ outcome = None
  /\ result = None
  /\ assigned = None
  /\ calls = <<>>
  /\ ProbeIdle

NextCalls == Next \/ CallAgain

\* newConfig called several times, one call after the other
SpecCalls == InitCalls /\ [][NextCalls]_vars

InitOption == ResolverIdle /\ ProbeInit

\* getValue called directly
SpecOption == InitOption /\ [][CallGetValue]_vars

InitName == ResolverIdle /\ NameInit

NextName == CallSnakeAndUpIfNeeded \/ CallSnakeAndUpIfNeededOnKey

\* snakeAndUpIfNeeded called directly, on a field name and then on its key
SpecName == InitName /\ [][NextName]_vars

-----------------------------------------------------------------------------
(* What the properties below expect of a call, read off the schema, the    *)
(* snapshot and the options without running the resolver.                  *)

Finished == pc \in {"done", "mutated"}

RECURSIVE Leaves(_, _)
\* the descriptor entries of a schema and of its nested schemas, in
\* depth-first order, each with the path of keys leading to its schema
Leaves(entries, path) ==
  IF entries = <<>> THEN <<>>
  ELSE (IF Head(entries).val.t = "option"
        THEN <<[path |-> path, key |-> Head(entries).key, opt |-> Head(entries).val]>>
        ELSE IF Head(entries).val.t = "object"
        THEN Leaves(Head(entries).val.entries, Append(path, Head(entries).key))
        ELSE <<>>)
       \o Leaves(Tail(entries), path)

RECURSIVE Literals(_, _)
\* the entries that are neither descriptors nor nested schemas, with their paths
Literals(entries, path) ==
  IF entries = <<>> THEN {}
  ELSE (IF Head(entries).val.t = "option" THEN {}
        ELSE IF Head(entries).val.t = "object"
        THEN Literals(Head(entries).val.entries, Append(path, Head(entries).key))
        ELSE {[path |-> path, key |-> Head(entries).key, val |-> Head(entries).val]})
       \cup Literals(Tail(entries), path)

SpecLeaves == Leaves(spec.entries, <<>>)

LeafSet == { SpecLeaves[i] : i \in 1..Len(SpecLeaves) }

\* the lookup key of each field of the schemas
ExpectedKey(k) ==
  CASE k = name         -> NAME
    [] k = port         -> PORT
    [] k = portOptional -> PORT
    [] k = enabled      -> NAME

Present(leaf) == env[ExpectedKey(leaf.key)] # Undefined

Raw(leaf) == env[ExpectedKey(leaf.key)].s

NAME_is_not_set == <<"N","A","M","E"," ","i","s"," ","n","o","t"," ","s","e","t">>

PORT_is_not_set == <<"P","O","R","T"," ","i","s"," ","n","o","t"," ","s","e","t">>

PORT_is_not_a_number ==
  <<"P","O","R","T"," ","i","s"," ","n","o","t"," ","a"," ","n","u","m","b","e","r">>

\* whether the value present for the field parses for the field's type
Parses(leaf) == leaf.opt.parser = "number" => Raw(leaf) = OnePointFive

\* the parser's value for the value present: the string itself, the number,
\* or whether the string is "true"
Parsed(leaf) ==
  CASE leaf.opt.parser = "string"  -> Str(Raw(leaf))
    [] leaf.opt.parser = "number"  -> Num(15, 10)
    [] leaf.opt.parser = "boolean" -> Bool(Raw(leaf) = <<"t","r","u","e">>)

Suppressed(leaf) ==
  /\ leaf.opt.options.notNeededIn # Undefined
  /\ options.nodeEnv # Undefined
  /\ options.nodeEnv.s \in
       { toList(leaf.opt.options.notNeededIn)[i] :
           i \in 1..Len(toList(leaf.opt.options.notNeededIn)) }

\* a missing required field: no value in the snapshot, and no default,
\* optional flag or suppression that stands in for it
MissingRequired(leaf) ==
  /\ ~Present(leaf)
  /\ leaf.opt.options.default = Undefined
  /\ leaf.opt.options.optional # Bool(TRUE)
  /\ ~Suppressed(leaf)

NotSetClause(leaf) == IF ExpectedKey(leaf.key) = NAME THEN NAME_is_not_set ELSE PORT_is_not_set

Fails(leaf) == IF Present(leaf) THEN ~Parses(leaf) ELSE MissingRequired(leaf)

ExpectedClause(leaf) == IF Present(leaf) THEN PORT_is_not_a_number ELSE NotSetClause(leaf)

\* the value a field that does not fail resolves to
ExpectedValue(leaf) ==
  IF Present(leaf) THEN Parsed(leaf)
  ELSE IF leaf.opt.options.default # Undefined THEN leaf.opt.options.default
  ELSE Undefined

FailingLeaves == SelectSeq(SpecLeaves, Fails)

\* the field-error messages of the call, in depth-first schema order
ExpectedClauses == [i \in 1..Len(FailingLeaves) |-> ExpectedClause(FailingLeaves[i])]

MissingLeaves == SelectSeq(SpecLeaves, MissingRequired)

MissingClauses == [i \in 1..Len(MissingLeaves) |-> NotSetClause(MissingLeaves[i])]

FirstComma(s) == CHOOSE i \in 1..(Len(s) - 1) :
  /\ s[i] = "," /\ s[i + 1] = " "
  /\ \A j \in 1..(i - 1) : ~(s[j] = "," /\ s[j + 1] = " ")

RECURSIVE Clauses(_)
\* the clauses of a message: its parts between ", "
Clauses(s) ==
  IF \E i \in 1..(Len(s) - 1) : s[i] = "," /\ s[i + 1] = " "
  THEN <<SubSeq(s, 1, FirstComma(s) - 1)>> \o Clauses(SubSeq(s, FirstComma(s) + 2, Len(s)))
  ELSE <<s>>

EndsWithIsNotSet(c) ==
  Len(c) >= Len(IsNotSet) /\ SubSeq(c, Len(c) - Len(IsNotSet) + 1, Len(c)) = IsNotSet

RECURSIVE Joined(_)
Joined(cs) ==
  IF Len(cs) = 0 THEN <<>>
  ELSE IF Len(cs) = 1 THEN cs[1]
  ELSE cs[1] \o <<",", " ">> \o Joined(Tail(cs))

\* the field of the returned object that a descriptor entry resolves into
FieldOf(leaf) == Get(ObjectAt(outcome.v, leaf.path), leaf.key)

IgnoreErrors == options.ignoreErrors = Bool(TRUE)

-----------------------------------------------------------------------------
(* Properties of newConfig, checked under Spec                             *)

Required(leaf) == leaf.opt.options.optional # Bool(TRUE)

FieldsMatchPresent ==
  \A leaf \in LeafSet : Present(leaf) => FieldOf(leaf) = Parsed(leaf)

\* C1 as stated: if every required descriptor's lookup key is present and
\* parses for its type, newConfig returns without raising and every
\* descriptor field (whose key the snapshot holds) equals the parser's value
\* for the snapshot entry: the string itself, the parsed number, value = "true".
C1_RequiredPresentResolves ==
  (/\ Finished
   /\ \A leaf \in LeafSet : Required(leaf) => Present(leaf) /\ Parses(leaf))
  => (outcome.k = "return" /\ FieldsMatchPresent)

\* C1 amended: if every required descriptor's lookup key is present and every
\* descriptor whose key is present, optional ones included, has a value that
\* parses for its type, newConfig returns without raising and every
\* descriptor field whose key is present equals the parser's value.
C1_AllPresentParseResolves ==
  (/\ Finished
   /\ \A leaf \in LeafSet : (Required(leaf) => Present(leaf)) /\ (Present(leaf) => Parses(leaf)))
  => (outcome.k = "return" /\ FieldsMatchPresent)

\* a successful call whose schema holds a number and a boolean field in a
\* nested schema, with both variables set
C1_Witness ==
  /\ pc = "done"
  /\ ~IgnoreErrors
  /\ \A leaf \in LeafSet : (Required(leaf) => Present(leaf)) /\ (Present(leaf) => Parses(leaf))
  /\ \E a, b \in LeafSet :
       /\ a.key = port /\ a.path # <<>> /\ FieldOf(a) = Num(15, 10)
       /\ b.key = enabled /\ FieldOf(b) = Bool(TRUE)
  /\ outcome.k = "return"

\* C2: with at least one missing required field and ignoreErrors unset,
\* newConfig raises a ConfigError whose message is the ", "-joined list of
\* the field-error messages, with exactly one "<lookupKey> is not set" clause
\* per missing required field, in the order the fields are met in the schema.
C2_MissingFieldsAllReported ==
  (Finished /\ ~IgnoreErrors /\ Len(MissingLeaves) >= 1)
  => /\ outcome.k = "throw"
     /\ outcome.e.t = "error"
     /\ outcome.e.cls = "ConfigError"
     /\ Clauses(outcome.e.message) = ExpectedClauses
     /\ SelectSeq(Clauses(outcome.e.message), EndsWithIsNotSet) = MissingClauses

\* a raise that reports two missing fields in schema order, an optional
\* field between them being left out of the message
C2_Witness ==
  /\ pc = "done"
  /\ ~IgnoreErrors
  /\ Len(SpecLeaves) = 3
  /\ SpecLeaves[2].key = portOptional
  /\ MissingClauses = <<PORT_is_not_set, NAME_is_not_set>>
  /\ outcome.k = "throw"

\* C3: with ignoreErrors unset a top-level call returns a result if and only
\* if no descriptor at any nesting level produced a field error; otherwise it
\* raises and no result object reaches the caller.
C3_AllOrNothing ==
  (Finished /\ ~IgnoreErrors)
  => /\ (outcome.k = "return") <=> (Len(FailingLeaves) = 0)
     /\ outcome.k = "throw" => (result = None /\ outcome.e.cls = "ConfigError")
     /\ outcome.k = "return" => result # None

\* a raise caused only by a field two schema levels down
C3_Witness ==
  /\ pc = "done"
  /\ ~IgnoreErrors
  /\ Len(FailingLeaves) = 1
  /\ Len(SpecLeaves) = 1
  /\ Len(FailingLeaves[1].path) = 2
  /\ outcome.k = "throw"
  /\ result = None

\* C4: with ignoreErrors set newConfig does not raise: every failing field
\* reads as undefined and every other descriptor field holds the value it
\* resolves to whatever the failing fields are.
C4_IgnoreErrorsPartialResult ==
  (Finished /\ IgnoreErrors)
  => /\ outcome.k = "return"
     /\ \A leaf \in LeafSet :
          FieldOf(leaf) = IF Fails(leaf) THEN Undefined ELSE ExpectedValue(leaf)

\* a partial result: a failing field followed, at the same level, by a field
\* that resolves to a value
C4_Witness ==
  /\ pc = "done"
  /\ IgnoreErrors
  /\ Len(SpecLeaves) >= 2
  /\ Fails(SpecLeaves[1])
  /\ ~Fails(SpecLeaves[2])
  /\ SpecLeaves[1].path = SpecLeaves[2].path
  /\ FieldOf(SpecLeaves[2]) = Bool(TRUE)
  /\ FieldOf(SpecLeaves[1]) = Undefined

C6_NestedResolvedAndMerged ==
  /\ (Finished /\ outcome.k = "return")
     => \A leaf \in LeafSet :
          /\ ObjectAt(outcome.v, leaf.path).t = "object"
          /\ FieldOf(leaf) = IF Fails(leaf) THEN Undefined ELSE ExpectedValue(leaf)
  /\ (Finished /\ ~IgnoreErrors /\ Len(FailingLeaves) >= 1)
     => outcome = Throw(ConfigError(Joined(ExpectedClauses)))

\* a raise whose message lists a nested field before a top-level field
C6_Witness ==
  /\ pc = "done"
  /\ ~IgnoreErrors
  /\ Len(FailingLeaves) = 2
  /\ FailingLeaves[1].path # <<>>
  /\ FailingLeaves[2].path = <<>>
  /\ outcome.k = "throw"
  /\ outcome.e.message = PORT_is_not_a_number \o <<",", " ">> \o NAME_is_not_set

\* C7: every schema entry whose value is a literal, at the top level or in a
\* nested object, appears in the result under the same key with the same value.
C7_LiteralsPassThrough ==
  (Finished /\ outcome.k = "return")
  => \A l \in Literals(spec.entries, <<>>) :
       Get(ObjectAt(outcome.v, l.path), l.key) = l.val

\* C8: every object newConfig returns is frozen: an assignment to a field of
\* the result, or of a nested result in it, changes nothing, also for a
\* partial result returned under ignoreErrors.
C8_ResultFrozen == pc = "mutated" => result = outcome.v

\* an assignment attempted on a nested object of a partial result
C8_Witness ==
  /\ pc = "mutated"
  /\ IgnoreErrors
  /\ Len(FailingLeaves) >= 1
  /\ assigned.path # <<>>
  /\ assigned.key = name
  /\ HasOwn(ObjectAt(outcome.v, assigned.path), name)

-----------------------------------------------------------------------------
(* Properties of getValue, checked under SpecOption                        *)

ProbeKey == envNameOf(probe.opt, probe.propertyName)

ProbeAbsent == Lookup(probe.env, ProbeKey) = Undefined

ProbeSettings == probe.opt.options

\* the labels of a notNeededIn setting, a single label or a list
Labels(n) == IF n.t = "string" THEN {n.s} ELSE { n.items[i] : i \in 1..Len(n.items) }

\* notNeededIn is configured and the call's nodeEnv is supplied and is one
\* of its labels
SuppressionApplies ==
  /\ ProbeSettings.notNeededIn # Undefined
  /\ probe.appOptions # Undefined
  /\ probe.appOptions.nodeEnv # Undefined
  /\ probe.appOptions.nodeEnv.s \in Labels(ProbeSettings.notNeededIn)

ProbeNotSet == Throw(ConfigError(ProbeKey \o <<" ","i","s"," ","n","o","t"," ","s","e","t">>))

\* C9: with the lookup key absent getValue decides in this order: a configured
\* default is returned (also with optional or a suppression list configured,
\* also a falsy default); else if optional, undefined; else if the
\* suppression rule applies, undefined; else "<lookupKey> is not set" is raised.
C9_AbsentPriorityOrder ==
  (probe.called /\ ProbeAbsent)
  => probeResult =
       IF ProbeSettings.default # Undefined THEN Return(ProbeSettings.default)
       ELSE IF ProbeSettings.optional = Bool(TRUE) THEN Return(Undefined)
       ELSE IF SuppressionApplies THEN Return(Undefined)
       ELSE ProbeNotSet

\* a falsy default returned for an absent key although optional and an
\* applicable suppression list are configured too
C9_Witness ==
  /\ probe.called
  /\ ProbeAbsent
  /\ ProbeSettings.default = Bool(FALSE)
  /\ ProbeSettings.optional = Bool(TRUE)
  /\ SuppressionApplies
  /\ probeResult = Return(Bool(FALSE))

\* C10: for a required descriptor with no default whose key is absent,
\* getValue returns undefined without error if and only if notNeededIn is
\* configured (one label or a list) and the call's nodeEnv is supplied and
\* equals one of the labels; otherwise "<lookupKey> is not set" is raised.
C10_SuppressionIffMember ==
  (/\ probe.called
   /\ ProbeAbsent
   /\ ProbeSettings.default = Undefined
   /\ ProbeSettings.optional # Bool(TRUE))
  => /\ (probeResult = Return(Undefined)) <=> SuppressionApplies
     /\ ~SuppressionApplies => probeResult = ProbeNotSet

\* a required field left undefined because nodeEnv is the first label of the list
C10_Witness ==
  /\ probe.called
  /\ ProbeAbsent
  /\ ProbeSettings.default = Undefined
  /\ ProbeSettings.optional # Bool(TRUE)
  /\ ProbeSettings.notNeededIn = Arr(<<development, test>>)
  /\ probe.appOptions # Undefined
  /\ probe.appOptions.nodeEnv = Str(development)
  /\ probeResult = Return(Undefined)

ProbePresent == Lookup(probe.env, ProbeKey) # Undefined

\* the string the snapshot holds under the lookup key
ProbeRaw == Lookup(probe.env, ProbeKey).s

ProbeNotANumber ==
  Throw(ConfigError(ProbeKey \o <<" ","i","s"," ","n","o","t"," ","a"," ","n","u","m","b","e","r">>))

\* C11: a boolean descriptor whose key is present resolves to true exactly
\* when the value is the string "true" and to false for every other present
\* value; a present value never gives a field error.
C11_BooleanTrueOnlyForTrue ==
  (probe.called /\ probe.opt.parser = "boolean" /\ ProbePresent)
  => probeResult = Return(Bool(ProbeRaw = <<"t","r","u","e">>))

\* "TRUE" resolved to false although the configured default is true
C11_Witness ==
  /\ probe.called
  /\ probe.opt.parser = "boolean"
  /\ ProbePresent
  /\ ProbeRaw = <<"T","R","U","E">>
  /\ ProbeSettings.default = Bool(TRUE)
  /\ probeResult = Return(Bool(FALSE))

\* a numeric literal in its entirety: digits with at most one fraction point
WholeNumericLiteral(s) ==
  /\ \E i \in 1..Len(s) : s[i] \in {"0","1","2","3","4","5","6","7","8","9"}
  /\ \A i \in 1..Len(s) : s[i] \in {"0","1","2","3","4","5","6","7","8","9","."}
  /\ Cardinality({ i \in 1..Len(s) : s[i] = "." }) <= 1

\* the floating-point value of the numeric literals among the values tried
LiteralValue(s) ==
  CASE s = <<"1">>                 -> Num(1, 1)
    [] s = <<"8","0","8","0">>     -> Num(8080, 1)
    [] s = <<"1","0","0",".","5">> -> Num(1005, 10)

\* C12: a number descriptor whose key is present resolves to the value of the
\* string when the whole string is a numeric literal and raises
\* "<lookupKey> is not a number" for every other present value; with the key
\* absent and nothing else applying it raises "<lookupKey> is not set".
C12_NumberWholeLiteralOrError ==
  (probe.called /\ probe.opt.parser = "number")
  => /\ ProbePresent
        => probeResult = IF WholeNumericLiteral(ProbeRaw)
                         THEN Return(LiteralValue(ProbeRaw))
                         ELSE ProbeNotANumber
     /\ (/\ ProbeAbsent
         /\ ProbeSettings.default = Undefined
         /\ ProbeSettings.optional # Bool(TRUE)
         /\ ~SuppressionApplies)
        => probeResult = ProbeNotSet

\* the key derived from each field name tried: "_" before each uppercase
\* letter of a camelCase name, then upper-cased
DerivedKey(n) ==
  CASE n = <<"p","o","r","t">>                 -> <<"P","O","R","T">>
    [] n = <<"P","O","R","T">>                 -> <<"P","O","R","T">>
    [] n = <<"s","o","m","e","U","r","l">>     -> <<"S","O","M","E","_","U","R","L">>
    [] n = <<"S","O","M","E","_","U","R","L">> -> <<"S","O","M","E","_","U","R","L">>

\* the configured env name, verbatim, and the derived key only if none is configured
ConfiguredKey ==
  IF ProbeSettings.env # Undefined THEN ProbeSettings.env.s ELSE DerivedKey(probe.propertyName)

\* C13: the lookup key is the configured env name, verbatim, for every
\* configured env string, and is derived from the field name only when none
\* is configured: a string descriptor with no other setting resolves to the
\* snapshot's value under that key, or raises "<that key> is not set".
C13_ExplicitKeyVerbatim ==
  (/\ probe.called
   /\ probe.opt.parser = "string"
   /\ ProbeSettings.default = Undefined
   /\ ProbeSettings.optional = Undefined
   /\ ProbeSettings.notNeededIn = Undefined)
  => probeResult =
       IF Lookup(probe.env, ConfiguredKey) # Undefined
       THEN Return(Lookup(probe.env, ConfiguredKey))
       ELSE Throw(ConfigError(ConfiguredKey \o <<" ","i","s"," ","n","o","t"," ","s","e","t">>))

BuiltIn == probe.opt.parser \in {"string", "number", "boolean"}

\* the values tried that the number parser turns into a number, with that
\* number; the other values make it throw
NumberOf(s) ==
  CASE s = <<"1">>                 -> Num(1, 1)
    [] s = <<"8","0","8","0">>     -> Num(8080, 1)
    [] s = <<"1","0","0",".","5">> -> Num(1005, 10)
    [] s = <<"1","2","a","b","c">> -> Num(12, 1)
    [] OTHER                       -> Undefined

\* what the descriptor's parser makes of the value present under the key
ParserOutcome ==
  CASE probe.opt.parser = "string"  -> Return(Str(ProbeRaw))
    [] probe.opt.parser = "boolean" -> Return(Bool(ProbeRaw = <<"t","r","u","e">>))
    [] probe.opt.parser = "number"  ->
         IF NumberOf(ProbeRaw) # Undefined THEN Return(NumberOf(ProbeRaw)) ELSE ProbeNotANumber

\* C18: when the lookup key is present the parser's outcome is final: a value
\* that parses is returned even if a different default is configured, and a
\* value that fails to parse raises the field error even if a default,
\* optional or an applicable suppression context is configured.
C18_ParserOutcomeFinal ==
  (probe.called /\ BuiltIn /\ ProbePresent) => probeResult = ParserOutcome

\* a malformed number raised although a default, optional and an applicable
\* suppression list are all configured
C18_Witness ==
  /\ probe.called
  /\ probe.opt.parser = "number"
  /\ ProbePresent
  /\ ProbeRaw = <<"a","b","c">>
  /\ ProbeSettings.default = Num(8081, 1)
  /\ ProbeSettings.optional = Bool(TRUE)
  /\ SuppressionApplies
  /\ probeResult = ProbeNotANumber

\* C19: presence is decided by undefined-ness only: a lookup key mapped to the
\* empty string is present and its value goes to the parser (string gives "",
\* boolean false, number raises "<lookupKey> is not a number"); default,
\* optional, suppression and "is not set" play no part.
C19_EmptyStringIsPresent ==
  (probe.called /\ BuiltIn /\ Lookup(probe.env, ProbeKey) = Str(<<>>))
  => probeResult =
       CASE probe.opt.parser = "string"  -> Return(Str(<<>>))
         [] probe.opt.parser = "boolean" -> Return(Bool(FALSE))
         [] probe.opt.parser = "number"  -> ProbeNotANumber

\* the empty string resolved for a string field that has a default
C19_Witness ==
  /\ probe.called
  /\ probe.opt.parser = "string"
  /\ Lookup(probe.env, ProbeKey) = Str(<<>>)
  /\ ProbeSettings.default = Str(<<"D","E","F","A","U","L","T">>)
  /\ probeResult = Return(Str(<<>>))

-----------------------------------------------------------------------------
(* Properties of snakeAndUpIfNeeded, checked under SpecName                *)

HasUnderscore(n) == \E i \in 1..Len(n) : n[i] = "_"

HasLowercase(n) == \E i \in 1..Len(n) : n[i] = "a"

\* C14: for every field name over letters, digits and underscore that
\* contains an underscore or has no lowercase letter, the derived lookup key
\* is the field name unchanged.
C14_ConventionalNameUnchanged ==
  (/\ probe.called
   /\ "key" \notin DOMAIN probe
   /\ HasUnderscore(probe.propertyName) \/ ~HasLowercase(probe.propertyName))
  => probeResult = Str(probe.propertyName)

\* C22: lookup-key derivation is idempotent: for every field name over
\* letters, digits and underscore, deriving the key from an already derived
\* key returns it unchanged.
C22_DerivationIdempotent ==
  "key" \in DOMAIN probe => probeResult = Str(probe.key)

-----------------------------------------------------------------------------
(* Properties of the diagnostics and of the errors that leave newConfig    *)

DoNotLogErrors == options.doNotLogErrors = Bool(TRUE)

\* an invocation has built its ConfigError's message and is about to raise it
AboutToRaise == pc = "running" /\ stack # <<>> /\ Top.phase = "throw"

LastLogged == sink[Len(sink)]

\* C15: when resolution fails with ignoreErrors and doNotLogErrors unset, the
\* sink's error method has been called with exactly the message of the
\* ConfigError, already when the raise is about to happen; with
\* doNotLogErrors true the sink is never called, in either mode.
C15_ErrorLoggedBeforeRaise ==
  /\ (AboutToRaise /\ ~DoNotLogErrors)
     => sink # <<>> /\ LastLogged = [level |-> "error", message |-> Top.message]
  /\ (Finished /\ ~IgnoreErrors /\ ~DoNotLogErrors /\ outcome.k = "throw")
     => sink # <<>> /\ LastLogged = [level |-> "error", message |-> outcome.e.message]
  /\ DoNotLogErrors => sink = <<>>

\* a raise of two field errors, logged as one error message before it
C15_Witness ==
  /\ pc = "done"
  /\ ~IgnoreErrors
  /\ ~DoNotLogErrors
  /\ outcome.k = "throw"
  /\ Len(FailingLeaves) = 2
  /\ FailingLeaves[1].path = <<>>
  /\ FailingLeaves[2].path = <<>>
  /\ sink = <<[level |-> "error", message |-> Joined(ExpectedClauses)]>>

\* C16: the only error that leaves newConfig is the aggregate ConfigError:
\* whatever a descriptor's getValue throws, the value thrown by a caller's
\* parser that is no Error included, is caught by the resolver and reported
\* through the aggregate, never propagated individually.
C16_OnlyAggregateLeaves ==
  (Finished /\ outcome.k = "throw")
  => /\ outcome.e.t = "error"
     /\ outcome.e.cls = "ConfigError"

\* C21: each top-level newConfig call invokes the diagnostic sink at most
\* once, whatever the nesting depth of the schema, the number of failing
\* fields and the value of ignoreErrors; a call in which no field fails
\* invokes it zero times.
C21_SinkAtMostOnce ==
  Finished
  => /\ Len(sink) <= 1
     /\ Len(FailingLeaves) = 0 => sink = <<>>

-----------------------------------------------------------------------------
(* Properties of repeated calls, checked under SpecCalls                   *)

SameInputs(c) == c.spec = spec /\ c.env = env /\ c.options = options

\* C17: the outcome of a call, the returned result or the raised error,
\* depends only on its schema, snapshot and options: a call gives what every
\* earlier call with the same inputs gave, whatever calls were made between.
C17_SameInputsSameOutcome ==
  pc = "done" => \A i \in 1..Len(calls) : SameInputs(calls[i]) => calls[i].outcome = outcome

\* a third call with the inputs of the first, after a call on another
\* snapshot that gave something else
C17_Witness ==
  /\ pc = "done"
  /\ Len(calls) = 2
  /\ SameInputs(calls[1])
  /\ calls[2].env # env
  /\ calls[2].outcome.k = "return"
  /\ calls[2].outcome # outcome
  /\ IgnoreErrors
  /\ outcome.k = "return"
  /\ Len(FailingLeaves) >= 1

-----------------------------------------------------------------------------
(* What a call leaves alone, checked under Spec                            *)

\* every active invocation walks the schema object it was handed: the
\* caller's schema, or the nested schema under the key its caller is visiting
FramesReadTheSchema ==
  stack # <<>>
  => /\ stack[1].spec = spec
     /\ \A j \in 2..Len(stack) : stack[j].spec = stack[j - 1].spec.entries[stack[j - 1].i].val

\* C20: a newConfig call, successful or failing, in either mode and at any
\* nesting depth, leaves the environment snapshot and the schema (its keys,
\* its descriptors and its nested schema objects) unchanged: no step of the
\* call changes them, and each invocation still walks the schema as given.
C20_InputsUnchanged ==
  [][spec' = spec /\ env' = env /\ FramesReadTheSchema']_vars

\* a failing call that resolved a field of a nested schema and has finished
C20_Witness ==
  /\ pc = "done"
  /\ outcome.k = "throw"
  /\ Len(SpecLeaves) = 2
  /\ Len(SpecLeaves[1].path) = 1
  /\ ~Fails(SpecLeaves[1])
  /\ Present(SpecLeaves[1])
  /\ Fails(SpecLeaves[2])
  /\ sink # <<>>

====
